---------------------------- MODULE Spec2Model ----------------------------
(***************************************************************************)
(* The room/mailbox relay of serve.py: the rooms dictionary guarded by     *)
(* rooms_lock, the five POST actions (create, join, send, poll, leave) and *)
(* the background cleanup thread.                                          *)
(*                                                                         *)
(* Time.  time.time() is a float of seconds; the model counts the clock in *)
(* units of 1/UnitsPerMs millisecond, so that int(time.time() * 1000)      *)
(* truncates.  A stored float timestamp is the clock value it was read at. *)
(*                                                                         *)
(* The clock never goes back (the spec's Clock collaborator is monotonic).  *)
(*                                                                         *)
(* Threads.  main() serves the requests with http.server.HTTPServer on one *)
(* thread (lines 271-278): a request is handled to its end before the next *)
(* one is read.  The cleanup thread (line 257) runs beside it.  Every      *)
(* handler body inside "with rooms_lock" is one action.  The two places    *)
(* that read the clock BEFORE taking the lock (send, line 157;             *)
(* cleanup_rooms, line 46) are two actions each: the read, then the locked *)
(* body; the other thread and the clock may step in between.               *)
(***************************************************************************)
EXTENDS Integers, Sequences, FiniteSets, TLC

VARIABLES
    rooms,      \* the dict rooms: room code -> room record            (line 27)
    clock,      \* what time.time() returns now, in clock units
    sending,    \* the send request that has read now_ms and waits for rooms_lock,
                \* if the server thread is handling one (a set of at most one)
    cleaner,    \* the cleanup thread: asleep until .wake, or holding .now
    last,       \* outcome of the last completed step (HTTP response, or sweep)
    nsent,      \* number of send requests made so far (payloads are numbered)
    cursor,     \* per polling client: the since it will pass next
    started,    \* clients that have made their first poll
    got,        \* per client: payload numbers its polls have returned
    owed,       \* per client: payload numbers appended for it after its first poll
    twice,      \* per client: payload numbers returned by two different polls
    roster      \* per live room: the names whose latest successful create, join,
                \* poll or leave on the room, since it was created, is not a leave

vars == <<rooms, clock, sending, cleaner, last, nsent, cursor, started, got, owed, twice,
          roster>>
store == <<rooms, clock, sending, cleaner, nsent>>
ghost == <<cursor, started, got, owed, twice>>

---------------------------------------------------------------------------
(* Program constants *)

ROOM_TIMEOUT == 30 * 60
MSG_TTL == 60
CLEANUP_INTERVAL == 30
MsPerSec == 1000
HOST_SENTINEL == "__HOST__"
BROADCAST == "*"

(* Bounds of the model *)

UnitsPerMs == 2      \* clock resolution: clock units per millisecond
MaxSends == 2        \* send requests per run

UnitsPerSec == MsPerSec * UnitsPerMs
StartClock == ROOM_TIMEOUT * UnitsPerSec

\* The instants the clock is observed at: a whole number of seconds after
\* the start, plus a jitter in clock units.
Moments(seconds, jitter) ==
    { StartClock + s * UnitsPerSec + a : s \in seconds, a \in jitter }

---------------------------------------------------------------------------
(* Request inputs *)

\* The polling clients followed across polls, and the room they poll
Clients == {"Bob"}
ClientRoom == "ABCD"

\* str.upper() on the room codes the requests carry (line 116)
Upper(s) == CASE s = "abcd" -> "ABCD"
              [] s = "wxyz" -> "WXYZ"
              [] OTHER -> s

\* str.strip() on the names the requests carry (lines 119, 137, 151, 169, 194)
Strip(s) == CASE s = "  " -> ""
              [] s = " Bob " -> "Bob"
              [] OTHER -> s

\* int(time.time() * 1000) (line 157)
NowMs(t) == t \div UnitsPerMs

---------------------------------------------------------------------------
(* Dictionaries: a dict is a function whose DOMAIN is its key set *)

Put(d, k, v) == [x \in DOMAIN d \cup {k} |-> IF x = k THEN v ELSE d[x]]
Del(d, k) == [x \in DOMAIN d \ {k} |-> d[x]]
EmptyDict == [x \in {} |-> 0]

\* What is left of a record of the rooms once the rooms in gone are deleted
Without(d, gone) == [x \in DOMAIN d \ gone |-> d[x]]

\* The outcome of a step: the response send_json writes (op, room, name,
\* since of the request; status; the "host", "msgs" and "ts" fields), or
\* what a sweep did (its now, the codes in dead, and for observation the
\* payload numbers of the entries it dropped from surviving rooms).
NoResp ==
    [op |-> "none", room |-> "", name |-> "", since |-> 0, status |-> 0,
     host |-> FALSE, msgs |-> << >>, ts |-> 0, inlock |-> FALSE,
     dead |-> {}, now |-> 0, gone |-> {}]

\* send_json(obj, status) (lines 65-74); inlock: the response, or a print,
\* is written inside "with rooms_lock"
Resp(op, room, name, status, inlock) ==
    [NoResp EXCEPT !.op = op, !.room = room, !.name = name,
                   !.status = status, !.inlock = inlock]

Init ==
    /\ rooms = EmptyDict
    /\ clock = StartClock
    /\ sending = {}
    /\ cleaner = [pc |-> "sleep", wake |-> StartClock + CLEANUP_INTERVAL * UnitsPerSec, now |-> 0]
    /\ last = NoResp
    /\ nsent = 0
    /\ cursor = [n \in Clients |-> 0]
    /\ started = {}
    /\ got = [n \in Clients |-> {}]
    /\ owed = [n \in Clients |-> {}]
    /\ twice = [n \in Clients |-> {}]
    /\ roster = EmptyDict

---------------------------------------------------------------------------
(* The server thread (lines 271-278) *)

ServerThreaded == TRUE

\* HTTPServer.serve_forever is between two requests: the next one is handled
\* only when the one before has been answered.
ServerFree == sending = {}

---------------------------------------------------------------------------
(* The clock *)

\* Time passes: the clock moves on to a later instant.
Tick(t) ==
    /\ t > clock
    /\ clock' = t
    /\ UNCHANGED <<rooms, sending, cleaner, last, nsent, ghost, roster>>

---------------------------------------------------------------------------
(* action == "create" (lines 118-134) *)

NewRoomNoPlayer(name, t1, t2) ==
    [players |-> EmptyDict, host |-> name, msgs |-> << >>, created |-> t2]

\* The room stored by create (lines 127-132): the dict literal reads the
\* clock twice, t1 for the creator's last-seen time and t2 for "created".
NewRoom(name, t1, t2) ==
    [players |-> Put(EmptyDict, name, t1), host |-> name, msgs |-> << >>, created |-> t2]

NeverTaken(room_code) == FALSE

\* Line 124: create refuses a code that has a room
Taken(room_code) == room_code \in DOMAIN rooms

Create(rawCode, rawName, t2) ==
    LET room_code == Upper(rawCode)
        name == Strip(rawName)
    IN  /\ ServerFree
        /\ t2 \in {clock, clock + 1}
        /\ IF room_code = "" \/ name = ""
           THEN /\ last' = Resp("create", room_code, name, 400, FALSE)
                /\ UNCHANGED <<rooms, clock, roster>>
           ELSE IF Taken(room_code)
           THEN /\ last' = Resp("create", room_code, name, 409, TRUE)
                /\ UNCHANGED <<rooms, clock, roster>>
           ELSE /\ rooms' = Put(rooms, room_code, NewRoom(name, clock, t2))
                /\ clock' = t2
                /\ last' = Resp("create", room_code, name, 200, FALSE)
                /\ roster' = Put(roster, room_code, {name})
        /\ UNCHANGED <<sending, cleaner, nsent, ghost>>

---------------------------------------------------------------------------
(* action == "join" (lines 136-148) *)

JoinedAlone(players, name, t) == Put(EmptyDict, name, t)

\* Line 146: room["players"][name] = time.time()
Joined(players, name, t) == Put(players, name, t)

\* The "host" field of join's response (line 148)
JoinHostFlag(name, room) == FALSE

Join(rawCode, rawName) ==
    LET room_code == Upper(rawCode)
        name == Strip(rawName)
    IN  /\ ServerFree
        /\ IF room_code = "" \/ name = ""
           THEN /\ last' = Resp("join", room_code, name, 400, FALSE)
                /\ UNCHANGED <<rooms, roster>>
           ELSE IF room_code \notin DOMAIN rooms
           THEN /\ last' = Resp("join", room_code, name, 404, TRUE)
                /\ UNCHANGED <<rooms, roster>>
           ELSE LET room == rooms[room_code] IN
                /\ rooms' = [rooms EXCEPT ![room_code].players = Joined(room.players, name, clock)]
                /\ last' = [Resp("join", room_code, name, 200, FALSE)
                               EXCEPT !.host = JoinHostFlag(name, room)]
                /\ roster' = [roster EXCEPT ![room_code] = @ \cup {name}]
        /\ UNCHANGED <<clock, sending, cleaner, nsent, ghost>>

---------------------------------------------------------------------------
(* action == "send" (lines 150-166) *)

\* The payload of the n-th send request.  msg is an opaque JSON value; the
\* requests of the model carry their number and the "to" they asked for, so
\* that a log entry can be traced to the request that made it.
Payload(n, to_name) == [id |-> n, to |-> to_name]

\* Lines 151-157: the fields are read and checked, and now_ms is taken,
\* before rooms_lock is acquired.
SendRead(rawCode, rawFrom, to_name) ==
    LET room_code == Upper(rawCode)
        from_name == Strip(rawFrom)
    IN  /\ ServerFree
        /\ nsent < MaxSends
        /\ nsent' = nsent + 1
        /\ IF room_code = "" \/ from_name = ""
           THEN /\ last' = Resp("send", room_code, from_name, 400, FALSE)
                /\ UNCHANGED sending
           ELSE /\ sending' = sending \cup
                       {[room |-> room_code, from |-> from_name, to |-> to_name,
                         msg |-> Payload(nsent + 1, to_name), now_ms |-> NowMs(clock)]}
                /\ UNCHANGED last
        /\ UNCHANGED <<rooms, clock, cleaner, ghost, roster>>

\* Lines 163-164: the host sentinel is replaced by the room's host
ResolveTo(to_name, room) == IF to_name = HOST_SENTINEL THEN room.host ELSE to_name

\* Ghost: whether the spec calls an entry addressed to a polling name
AddressedTo(m, n) == m[3] = n \/ (m[3] = BROADCAST /\ m[2] # n)

AppendedAsPlayer(room, entry) ==
    [room EXCEPT !.msgs = Append(@, entry), !.players = Put(@, entry[2], entry[1])]

\* Line 165: room["msgs"].append((now_ms, from_name, to_name, msg))
Appended(room, entry) == [room EXCEPT !.msgs = Append(@, entry)]

\* Lines 158-166: the locked body of send, for a request r of sending
SendAppend(r) ==
    /\ r \in sending
    /\ sending' = sending \ {r}
    /\ IF r.room \notin DOMAIN rooms
       THEN /\ last' = Resp("send", r.room, r.from, 404, TRUE)
            /\ UNCHANGED <<rooms, owed>>
       ELSE LET room == rooms[r.room]
                entry == <<r.now_ms, r.from, ResolveTo(r.to, room), r.msg>>
            IN  /\ rooms' = [rooms EXCEPT ![r.room] = Appended(room, entry)]
                /\ last' = Resp("send", r.room, r.from, 200, FALSE)
                /\ owed' = [n \in Clients |->
                              IF r.room = ClientRoom /\ n \in started /\ AddressedTo(entry, n)
                              THEN owed[n] \cup {r.msg.id} ELSE owed[n]]
    /\ UNCHANGED <<clock, cleaner, nsent, cursor, started, got, twice, roster>>

---------------------------------------------------------------------------
(* action == "poll" (lines 168-191) *)

SkippedStrictly(ts, since) == ts < since

\* Line 183: an entry at or before since is skipped
Skipped(ts, since) == ts <= since

\* Line 185: the entry is a broadcast or names the poller
ForName(to, name) == to = "*" \/ to = name

NotOwnBroadcast(frm, to, name) == FALSE

\* Lines 186-187: the poller's own broadcast; "continue" ends the iteration
\* there, before lines 188 and 189
OwnBroadcast(frm, to, name) == frm = name /\ to = "*"

\* Lines 189-190
NextMaxTs(ts, max_ts) == IF ts > max_ts THEN ts ELSE max_ts

\* Lines 180-190: the loop over room["msgs"], from entry i on.  The two
\* "continue" statements (lines 184 and 187) go to the next entry and leave
\* both result and max_ts as they are.
RECURSIVE PollLoop(_, _, _, _, _, _)
PollLoop(msgs, i, name, since, result, max_ts) ==
    IF i > Len(msgs) THEN [result |-> result, max_ts |-> max_ts]
    ELSE LET ts == msgs[i][1]
             frm == msgs[i][2]
             to == msgs[i][3]
             msg == msgs[i][4]
         IN  IF Skipped(ts, since)
             THEN PollLoop(msgs, i + 1, name, since, result, max_ts)
             ELSE IF ForName(to, name) /\ OwnBroadcast(frm, to, name)
             THEN PollLoop(msgs, i + 1, name, since, result, max_ts)
             ELSE PollLoop(msgs, i + 1, name, since,
                           IF ForName(to, name)
                           THEN Append(result, [ts |-> ts, from |-> frm, to |-> to, msg |-> msg])
                           ELSE result,
                           NextMaxTs(ts, max_ts))

NoHeartbeat(players, name, t) == players

\* Line 179: room["players"][name] = time.time()
Heartbeat(players, name, t) == Put(players, name, t)

\* Lines 169-191, without the bookkeeping of the polling clients
PollBody(rawCode, rawName, since) ==
    LET room_code == Upper(rawCode)
        name == Strip(rawName)
    IN  /\ ServerFree
        /\ IF room_code = "" \/ name = ""
           THEN /\ last' = [Resp("poll", room_code, name, 400, FALSE) EXCEPT !.since = since]
                /\ UNCHANGED <<rooms, roster>>
           ELSE IF room_code \notin DOMAIN rooms
           THEN /\ last' = [Resp("poll", room_code, name, 404, TRUE) EXCEPT !.since = since]
                /\ UNCHANGED <<rooms, roster>>
           ELSE LET room == rooms[room_code]
                    out == PollLoop(room.msgs, 1, name, since, << >>, since)
                IN  /\ rooms' = [rooms EXCEPT ![room_code].players = Heartbeat(room.players, name, clock)]
                    /\ last' = [Resp("poll", room_code, name, 200, FALSE)
                                   EXCEPT !.since = since, !.msgs = out.result, !.ts = out.max_ts]
                    /\ roster' = [roster EXCEPT ![room_code] = @ \cup {name}]
        /\ UNCHANGED <<clock, sending, cleaner, nsent>>

\* A poll with any since
Poll(rawCode, rawName, since) ==
    /\ PollBody(rawCode, rawName, since)
    /\ UNCHANGED ghost

Ids(result) == {result[i].msg.id : i \in 1..Len(result)}

\* A poll of client n, which passes the "ts" of its previous poll as since
\* (0 the first time) and keeps the returned "ts" for the next one.
ClientPoll(n) ==
    /\ PollBody(ClientRoom, n, cursor[n])
    /\ IF last'.status = 200
       THEN /\ cursor' = [cursor EXCEPT ![n] = last'.ts]
            /\ started' = started \cup {n}
            /\ got' = [got EXCEPT ![n] = @ \cup Ids(last'.msgs)]
            /\ twice' = [twice EXCEPT ![n] = @ \cup (got[n] \cap Ids(last'.msgs))]
       ELSE UNCHANGED <<cursor, started, got, twice>>
    /\ UNCHANGED owed

---------------------------------------------------------------------------
(* action == "leave" (lines 193-205) *)

NeverEmptied(players) == FALSE

AlwaysEmptied(players) == TRUE

\* Line 202: the room is deleted once the leaver is removed
Emptied(players) == DOMAIN players = {}

LeftNobody(players, name) == players

\* Line 201: room["players"].pop(name, None)
Left(players, name) == Del(players, name)

\* .dead of the outcome: the room whose deletion line 204 prints, inside
\* "with rooms_lock"
Leave(rawCode, rawName) ==
    LET room_code == Upper(rawCode)
        name == Strip(rawName)
    IN  /\ ServerFree
        /\ IF room_code = "" \/ name = ""
           THEN /\ last' = Resp("leave", room_code, name, 400, FALSE)
                /\ UNCHANGED <<rooms, roster>>
           ELSE IF room_code \notin DOMAIN rooms
           THEN /\ last' = Resp("leave", room_code, name, 200, FALSE)
                /\ UNCHANGED <<rooms, roster>>
           ELSE LET players == Left(rooms[room_code].players, name) IN
                IF Emptied(players)
                THEN /\ rooms' = Del(rooms, room_code)
                     /\ last' = [Resp("leave", room_code, name, 200, TRUE)
                                    EXCEPT !.dead = {room_code}]
                     /\ roster' = Without(roster, {room_code})
                ELSE /\ rooms' = [rooms EXCEPT ![room_code].players = players]
                     /\ last' = Resp("leave", room_code, name, 200, FALSE)
                     /\ roster' = [roster EXCEPT ![room_code] = @ \ {name}]
        /\ UNCHANGED <<clock, sending, cleaner, nsent, ghost>>

---------------------------------------------------------------------------
(* cleanup_rooms (lines 43-55) *)

IsOld(room, now) == now - room.created > ROOM_TIMEOUT * UnitsPerSec

\* Lines 49-50: the room is listed in dead
IsDead(room, now) ==
    /\ now - room.created > ROOM_TIMEOUT * UnitsPerSec
    /\ \A n \in DOMAIN room.players : now - room.players[n] > ROOM_TIMEOUT * UnitsPerSec

KeepMsgAtCutoff(m, now) == m[1] * UnitsPerMs >= now - MSG_TTL * UnitsPerSec

\* Lines 54-55: m[0] > cutoff, with cutoff = (now - MSG_TTL) * 1000 a float
\* of milliseconds
KeepMsg(m, now) == m[1] * UnitsPerMs > now - MSG_TTL * UnitsPerSec

FilterMsgs(msgs, now) == SelectSeq(msgs, LAMBDA m : KeepMsg(m, now))

\* Ghost: the payload numbers of the entries of msgs that a sweep drops
Dropped(msgs, now) == {msgs[i][4].id : i \in {j \in 1..Len(msgs) : ~KeepMsg(msgs[j], now)}}

\* Lines 45-46: the sleep ends and now is read, before rooms_lock is taken
SweepRead ==
    /\ cleaner.pc = "sleep"
    /\ clock >= cleaner.wake
    /\ cleaner' = [cleaner EXCEPT !.pc = "lock", !.now = clock]
    /\ UNCHANGED <<rooms, clock, sending, last, nsent, ghost, roster>>

\* Lines 47-55: the locked body of one sweep; the thread then sleeps again
SweepRun ==
    /\ cleaner.pc = "lock"
    /\ LET now == cleaner.now
           dead == {code \in DOMAIN rooms : IsDead(rooms[code], now)}
       IN  /\ rooms' = [code \in DOMAIN rooms \ dead |->
                          [rooms[code] EXCEPT !.msgs = FilterMsgs(@, now)]]
           /\ last' = [NoResp EXCEPT !.op = "sweep", !.dead = dead, !.now = now,
                          !.gone = UNION {Dropped(rooms[code].msgs, now) : code \in DOMAIN rooms \ dead}]
           /\ roster' = Without(roster, dead)
    /\ cleaner' = [pc |-> "sleep", wake |-> clock + CLEANUP_INTERVAL * UnitsPerSec, now |-> 0]
    /\ UNCHANGED <<clock, sending, nsent, ghost>>

---------------------------------------------------------------------------
(* Clients that follow the cursor protocol, beside sends and the sweep     *)

CursorInstants == Moments({0, MSG_TTL}, {0, 1, UnitsPerMs})

\* The (from, to) of the sends: to the client, to all, and the client's own
CursorSends == {<<"Alice", "Bob">>, <<"Alice", "*">>, <<"Bob", "*">>}

NextCursor ==
    \/ \E t \in CursorInstants : Tick(t)
    \/ Create("abcd", "Alice", clock)
    \/ \E m \in CursorSends : SendRead("ABCD", m[1], m[2])
    \/ \E r \in sending : SendAppend(r)
    \/ \E n \in Clients : ClientPoll(n)
    \/ SweepRead
    \/ SweepRun

SpecCursor == Init /\ [][NextCursor]_vars

\* The log of the clients' room (empty when there is no such room)
ClientLog == IF ClientRoom \in DOMAIN rooms THEN rooms[ClientRoom].msgs ELSE << >>

\* C1: no gaps.  A client that feeds the returned ts back as since is
\* returned every entry addressed to it that was appended after its first
\* poll and is still in the log at its next poll.  An entry of the log that
\* is owed to the client, was never returned to it and lies at or before its
\* cursor is skipped by the next poll (and by every later one).
C1_NoGaps ==
    \A n \in started : \A i \in 1..Len(ClientLog) :
        (ClientLog[i][4].id \in owed[n] /\ ClientLog[i][1] <= cursor[n])
            => ClientLog[i][4].id \in got[n]

\* C2: no duplicates.  No entry is returned to a client by two different
\* polls, whatever sends, polls and sweeps interleave.
C2_NoDuplicates == \A n \in Clients : twice[n] = {}

\* A later poll of a client returned nothing although an entry an earlier
\* poll returned to it is still in the log.
C2_Witness ==
    \E n \in Clients :
        /\ last.op = "poll" /\ last.name = n /\ last.status = 200
        /\ last.msgs = << >>
        /\ \E i \in 1..Len(ClientLog) : ClientLog[i][4].id \in got[n]

---------------------------------------------------------------------------
(* Polls under several names and sinces, of a log of broadcasts and direct *)
(* messages                                                                *)

PollInstants == Moments({0}, {0, UnitsPerMs})
PollNames == {"Alice", " Bob ", "*"}
Sinces == {0, NowMs(StartClock), NowMs(StartClock) + 1}

NextPoll ==
    \/ \E t \in PollInstants : Tick(t)
    \/ Create("ABCD", "Alice", clock)
    \/ \E f \in {"Alice", "*"}, to \in {"*", "Alice", "Bob"} : SendRead("abcd", f, to)
    \/ \E r \in sending : SendAppend(r)
    \/ \E n \in PollNames, s \in Sinces : Poll("ABCD", n, s)

SpecPoll == Init /\ [][NextPoll]_vars

\* The last step was a successful poll
Polled == last.op = "poll" /\ last.status = 200

\* The log the last poll scanned (a poll leaves the log as it is)
PolledLog == rooms[last.room].msgs

\* The entry of a poll's result made from a log entry
AsReturned(m) == [ts |-> m[1], from |-> m[2], to |-> m[3], msg |-> m[4]]

\* The poll's result when the log entries that satisfy Sel are returned
Selected(Sel(_)) ==
    LET sel == SelectSeq(PolledLog, Sel)
    IN  [i \in 1..Len(sel) |-> AsReturned(sel[i])]

\* C3, as claimed: poll(code, name, since) returns exactly the entries with
\* timestamp > since and (to = name, or to = "*" and from # name), in log
\* order, and never a broadcast whose from is name.
C3_Original ==
    Polled =>
        /\ last.msgs = Selected(LAMBDA m : m[1] > last.since /\ AddressedTo(m, last.name))
        /\ \A i \in 1..Len(last.msgs) :
               ~(last.msgs[i].to = "*" /\ last.msgs[i].from = last.name)

\* C3, amended: poll(code, name, since) returns exactly the entries with
\* timestamp > since and (to = "*" or to = name) that are not a broadcast of
\* name's own (to = "*" and from = name), in log order.
C3_PollFilter ==
    Polled =>
        /\ last.msgs = Selected(LAMBDA m :
               /\ m[1] > last.since
               /\ (m[3] = "*" \/ m[3] = last.name)
               /\ ~(m[3] = "*" /\ m[2] = last.name))
        /\ \A i \in 1..Len(last.msgs) :
               ~(last.msgs[i].to = "*" /\ last.msgs[i].from = last.name)

\* Alice polls with since = 0 a log that holds her own broadcast and a
\* message for her: the broadcast is left out, the other is returned.
C3_Witness ==
    /\ Polled /\ last.name = "Alice" /\ last.since = 0
    /\ Len(PolledLog) = 2 /\ Len(last.msgs) = 1
    /\ \E i \in 1..2 : PolledLog[i][2] = "Alice" /\ PolledLog[i][3] = "*"

\* C18: a message sent with to equal to the name P of a player of the room
\* is returned only by polls made under the name P, whatever non-empty name
\* P is, "*" included.
C18_LiteralOnly ==
    Polled =>
        \A k \in 1..Len(last.msgs) :
            last.msgs[k].msg.to \in DOMAIN rooms[last.room].players
                => last.msgs[k].msg.to = last.name

---------------------------------------------------------------------------
(* max_ts *)

\* The largest of a non-empty finite set of integers
MaxOf(S) == CHOOSE x \in S : \A y \in S : y <= x

\* The timestamps of the log entries after since
Later(log, since) == {log[i][1] : i \in {j \in 1..Len(log) : log[j][1] > since}}

\* C8: poll returns max_ts = the maximum of since and the timestamps of all
\* log entries with timestamp > since, addressed to the caller or not; so
\* max_ts >= since, max_ts = since when no entry qualifies, and the cursor of
\* a client that feeds max_ts back as since never decreases.
C8_MaxTs ==
    [][ /\ (last'.op = "poll" /\ last'.status = 200) =>
             LET later == Later(rooms'[last'.room].msgs, last'.since)
             IN  /\ last'.ts = MaxOf({last'.since} \cup later)
                 /\ last'.ts >= last'.since
                 /\ later = {} => last'.ts = last'.since
        /\ \A n \in Clients : cursor'[n] >= cursor[n] ]_vars

---------------------------------------------------------------------------
(* The host sentinel, with hosts of any name create accepts *)

NextHost ==
    \/ \E n \in {"Alice", "*"} : Create("ABCD", n, clock)
    \/ \E to \in {"__HOST__", "Alice"} : SendRead("abcd", " Bob ", to)
    \/ \E r \in sending : SendAppend(r)
    \/ \E n \in {"Alice", " Bob ", "*"} : Poll("abcd", n, 0)
    \/ \E n \in {"Alice", "*"} : Leave("ABCD", n)

SpecHost == Init /\ [][NextHost]_vars

\* C4: a send to the host sentinel is stored with to = the room's host name
\* as of the send, and that message is returned by a poll made under the
\* host's name and by no poll made under any other name.
C4_HostOnly ==
    /\ \A c \in DOMAIN rooms : \A i \in 1..Len(rooms[c].msgs) :
           rooms[c].msgs[i][4].to = HOST_SENTINEL => rooms[c].msgs[i][3] = rooms[c].host
    /\ Polled =>
           \A i \in 1..Len(PolledLog) :
               (PolledLog[i][4].to = HOST_SENTINEL /\ PolledLog[i][1] > last.since) =>
                   ((\E k \in 1..Len(last.msgs) : last.msgs[k].msg = PolledLog[i][4])
                        <=> last.name = rooms[last.room].host)

---------------------------------------------------------------------------
(* Two room codes: rooms are created, joined, polled, written to and left *)

RoomInstants == Moments({0}, {0, 1})
RoomCodes == {"abcd", "WXYZ"}
RoomNames == {"Alice", " Bob "}

NextRoom ==
    \/ \E t \in RoomInstants : Tick(t)
    \/ \E c \in RoomCodes \cup {""}, n \in RoomNames \cup {"", "  "} : Create(c, n, clock)
    \/ \E c \in RoomCodes, n \in RoomNames : Join(c, n)
    \/ \E c \in RoomCodes : SendRead(c, "Alice", "*")
    \/ \E r \in sending : SendAppend(r)
    \/ \E c \in RoomCodes, n \in RoomNames : Poll(c, n, 0)
    \/ \E c \in RoomCodes, n \in RoomNames : Leave(c, n)

SpecRoom == Init /\ [][NextRoom]_vars

\* The step is a request of the kind, with any arguments
CreateStep ==
    /\ last'.op = "create"
    /\ \E c \in RoomCodes \cup {""}, n \in RoomNames \cup {"", "  "} : Create(c, n, clock)
JoinStep == last'.op = "join" /\ \E c \in RoomCodes, n \in RoomNames : Join(c, n)
PollStep == last'.op = "poll" /\ \E c \in RoomCodes, n \in RoomNames : Poll(c, n, 0)
LeaveStep == last'.op = "leave" /\ \E c \in RoomCodes, n \in RoomNames : Leave(c, n)
SendStep == last'.op = "send" /\ \E r \in sending : SendAppend(r)

\* The step leaves every room but the one of its request as it was
OthersKept ==
    \A c \in (DOMAIN rooms \cup DOMAIN rooms') \ {last'.room} :
        c \in DOMAIN rooms /\ c \in DOMAIN rooms' /\ rooms'[c] = rooms[c]

\* C5: create with a code that has a room fails with RoomExists (409) and
\* leaves that room as it is, so a create succeeds only when the code is
\* free and then its name is the host; create with an empty code or name
\* fails with InvalidArgument (400) and adds no room.
C5_Create ==
    [][ CreateStep =>
          /\ last'.status =
                IF last'.room = "" \/ last'.name = "" THEN 400
                ELSE IF last'.room \in DOMAIN rooms THEN 409 ELSE 200
          /\ last'.status # 200 => rooms' = rooms
          /\ last'.status = 200 =>
                /\ DOMAIN rooms' = DOMAIN rooms \cup {last'.room}
                /\ rooms'[last'.room].host = last'.name
                /\ OthersKept ]_vars

\* A create was refused with 409 and the room still has its first host,
\* players and messages.
C5_Witness ==
    /\ last.op = "create" /\ last.status = 409
    /\ rooms[last.room].host # last.name
    /\ Len(rooms[last.room].msgs) > 0
    /\ Cardinality(DOMAIN rooms[last.room].players) > 1

\* C6: when leave removes the last player of a room the room is deleted in
\* that same step; join, send and poll on a code without a room return
\* RoomNotFound (404) and create nothing, so the code stays without a room
\* until a create, and that create yields a room with an empty log whose
\* only player is the creator.
C6_LeaveDeletes ==
    [][ /\ LeaveStep =>
             ((last'.room \in DOMAIN rooms /\ DOMAIN rooms[last'.room].players = {last'.name})
                 => last'.room \notin DOMAIN rooms')
        /\ (JoinStep \/ PollStep \/ SendStep) =>
             (last'.room \notin DOMAIN rooms => last'.status = 404 /\ rooms' = rooms)
        /\ \A c \in DOMAIN rooms' \ DOMAIN rooms :
             /\ CreateStep /\ last'.room = c
             /\ rooms'[c].msgs = << >>
             /\ DOMAIN rooms'[c].players = {last'.name} ]_vars

\* The last player has just left a room: the room is gone, while another
\* room is still there.
C6_Witness ==
    /\ last.op = "leave" /\ last.dead = {last.room}
    /\ last.room \notin DOMAIN rooms
    /\ DOMAIN rooms # {}

\* C7: a successful join returns host = (name = room.host).
C7_JoinHost ==
    [][ (JoinStep /\ last'.status = 200) =>
            last'.host = (last'.name = rooms[last'.room].host) ]_vars

\* C12: join on a room that exists succeeds whether or not the name is a
\* player already (so a join after create by the same name raises no
\* duplicate-player error), and it changes the room's set of player names
\* only by adding the name: a join by a name that is a player leaves the set
\* as it is and does not lower that name's last-seen time; the other
\* players' times, the host, the messages, created and the other rooms are
\* unchanged.
C12_JoinIdempotent ==
    [][ (JoinStep /\ last'.room \in DOMAIN rooms) =>
          LET old == rooms[last'.room]
              new == rooms'[last'.room]
              n == last'.name
          IN  /\ last'.status = 200
              /\ DOMAIN new.players = DOMAIN old.players \cup {n}
              /\ n \in DOMAIN old.players =>
                     /\ DOMAIN new.players = DOMAIN old.players
                     /\ new.players[n] >= old.players[n]
              /\ \A m \in DOMAIN old.players \ {n} : new.players[m] = old.players[m]
              /\ new.host = old.host /\ new.msgs = old.msgs /\ new.created = old.created
              /\ OthersKept ]_vars

\* The creator of a room has joined it again, later than it created it: the
\* join succeeded, the room still has its two players and its messages, and
\* the creator's last-seen time has moved on.
C12_Witness ==
    /\ last.op = "join" /\ last.status = 200
    /\ last.name = rooms[last.room].host
    /\ Cardinality(DOMAIN rooms[last.room].players) = 2
    /\ rooms[last.room].players[last.name] > rooms[last.room].created
    /\ Len(rooms[last.room].msgs) > 0

\* C13: leave never answers RoomNotFound.  A leave on a code that has no
\* room succeeds and changes no state; a leave by a name that is not a
\* player of the room succeeds and leaves the room (its players, host and
\* messages) as it is, so the room is not deleted.
C13_LeaveQuiet ==
    [][ LeaveStep =>
          /\ last'.status = 200
          /\ last'.room \notin DOMAIN rooms => UNCHANGED store
          /\ (last'.room \in DOMAIN rooms /\ last'.name \notin DOMAIN rooms[last'.room].players)
                 => UNCHANGED store ]_vars

\* A leave on a code that has no room was answered with success while
\* another room is there, with its messages.
C13_Witness ==
    /\ last.op = "leave" /\ last.status = 200 /\ last.dead = {}
    /\ last.room \notin DOMAIN rooms
    /\ \E c \in DOMAIN rooms : Len(rooms[c].msgs) > 0

\* C14: no request handler writes its response, or prints, while it holds
\* rooms_lock, on any path of create, join, send, poll or leave.
C14_NoIOInLock == ~last.inlock

---------------------------------------------------------------------------
(* The sweep of rooms: rooms age and players are seen again *)

ReapInstants == Moments({0, ROOM_TIMEOUT, ROOM_TIMEOUT + CLEANUP_INTERVAL}, {0, 1})
ReapCodes == {"ABCD", "WXYZ"}

NextReap ==
    \/ \E t \in ReapInstants : Tick(t)
    \/ \E c \in ReapCodes, t2 \in ReapInstants : Create(c, "Alice", t2)
    \/ \E c \in ReapCodes : Poll(c, " Bob ", 0)
    \/ SweepRead
    \/ SweepRun

SpecReap == Init /\ [][NextReap]_vars

\* The step is the locked body of a sweep, run with the now it read
SweepStep == cleaner.pc = "lock" /\ cleaner'.pc = "sleep"

\* C9: a sweep tick deletes a room if and only if now - created_at >
\* ROOM_TIMEOUT and every player's last-seen time is more than ROOM_TIMEOUT
\* before now.
C9_Reap ==
    [][ SweepStep =>
          \A c \in DOMAIN rooms :
              c \notin DOMAIN rooms' <=>
                  /\ cleaner.now - rooms[c].created > ROOM_TIMEOUT * UnitsPerSec
                  /\ \A n \in DOMAIN rooms[c].players :
                         cleaner.now - rooms[c].players[n] > ROOM_TIMEOUT * UnitsPerSec ]_vars

\* A sweep has deleted a room and spared another that is older than
\* ROOM_TIMEOUT too, but has a player seen within ROOM_TIMEOUT.
C9_Witness ==
    /\ last.op = "sweep" /\ last.dead # {}
    /\ \E c \in DOMAIN rooms :
           /\ last.now - rooms[c].created > ROOM_TIMEOUT * UnitsPerSec
           /\ \E n \in DOMAIN rooms[c].players :
                  last.now - rooms[c].players[n] <= ROOM_TIMEOUT * UnitsPerSec

\* The step is a successful poll of the rooms that age
HeartbeatStep ==
    /\ last'.op = "poll" /\ last'.status = 200
    /\ \E c \in ReapCodes : Poll(c, " Bob ", 0)

\* A player of the room was seen less than ROOM_TIMEOUT before time t
SeenWithin(room, t) ==
    \E n \in DOMAIN room.players : t - room.players[n] < ROOM_TIMEOUT * UnitsPerSec

\* C11: poll is a liveness heartbeat.  A successful poll stamps the poller's
\* last-seen time with the time of the poll; no poll and no sweep removes or
\* lowers a stamp of a room that stays; and a sweep, whatever polls took the
\* lock since it read its now, deletes no room that has a player whose
\* latest stamp is less than ROOM_TIMEOUT old.  So a room polled at intervals
\* shorter than ROOM_TIMEOUT is never deleted by the sweep.
C11_Heartbeat ==
    [][ /\ HeartbeatStep =>
             /\ last'.name \in DOMAIN rooms'[last'.room].players
             /\ rooms'[last'.room].players[last'.name] = clock
        /\ \A c \in DOMAIN rooms \cap DOMAIN rooms' : \A n \in DOMAIN rooms[c].players :
             /\ n \in DOMAIN rooms'[c].players
             /\ rooms'[c].players[n] >= rooms[c].players[n]
        /\ SweepStep =>
             \A c \in DOMAIN rooms : SeenWithin(rooms[c], clock) => c \in DOMAIN rooms' ]_vars

\* A sweep has spared a room older than ROOM_TIMEOUT whose creator was last
\* seen more than ROOM_TIMEOUT before the sweep's now, because a poll took
\* the lock after the sweep read its now and before the sweep took it.
C11_Witness ==
    /\ last.op = "sweep"
    /\ \E c \in DOMAIN rooms :
           /\ last.now - rooms[c].created > ROOM_TIMEOUT * UnitsPerSec
           /\ last.now - rooms[c].players[rooms[c].host] > ROOM_TIMEOUT * UnitsPerSec
           /\ \E n \in DOMAIN rooms[c].players : rooms[c].players[n] > last.now

---------------------------------------------------------------------------
(* The sweep of messages: entries are appended and expire *)

ExpireInstants == Moments({0, MSG_TTL}, {0, 1, UnitsPerMs})

NextExpire ==
    \/ \E t \in ExpireInstants : Tick(t)
    \/ \E c \in ReapCodes : Create(c, "Alice", clock)
    \/ \E c \in ReapCodes : SendRead(c, "Alice", "*")
    \/ \E r \in sending : SendAppend(r)
    \/ Poll("ABCD", " Bob ", 0)
    \/ SweepRead
    \/ SweepRun

SpecExpire == Init /\ [][NextExpire]_vars

\* The sweep step leaves in every surviving room exactly the entries that
\* satisfy Kept, in their order
SweepKeeps(Kept(_)) ==
    SweepStep => \A c \in DOMAIN rooms' : rooms'[c].msgs = SelectSeq(rooms[c].msgs, Kept)

\* The age of entry m at the sweep's now, in clock units
Age(m) == cleaner.now - m[1] * UnitsPerMs

C19_Ordered ==
    \A c \in DOMAIN rooms : \A i, j \in 1..Len(rooms[c].msgs) :
        i < j => rooms[c].msgs[i][1] <= rooms[c].msgs[j][1]

\* A send has appended the second entry of a log, with a later timestamp
\* than the first; it took the lock when the clock had moved on from the
\* millisecond of its timestamp.
C19_Witness ==
    /\ last.op = "send" /\ last.status = 200
    /\ Len(rooms[last.room].msgs) = 2
    /\ rooms[last.room].msgs[1][1] < rooms[last.room].msgs[2][1]
    /\ rooms[last.room].msgs[2][1] < NowMs(clock)

---------------------------------------------------------------------------
(* Retention: the sweep is punctual and the requests take no time *)

RetainInstants ==
    Moments({0, CLEANUP_INTERVAL, MSG_TTL, MSG_TTL + CLEANUP_INTERVAL}, {0, UnitsPerMs})

\* Time passes while no request is being handled and the cleanup thread is
\* asleep, and not beyond the end of its sleep (line 45): every sweep runs
\* at the instant it is due.
PunctualTick(t) ==
    /\ sending = {}
    /\ cleaner.pc = "sleep"
    /\ t <= cleaner.wake
    /\ Tick(t)

NextRetain ==
    \/ \E t \in RetainInstants : PunctualTick(t)
    \/ Create("ABCD", "Alice", clock)
    \/ SendRead("ABCD", "Alice", "*")
    \/ \E r \in sending : SendAppend(r)
    \/ Poll("ABCD", " Bob ", 0)
    \/ SweepRead
    \/ SweepRun

SpecRetain == Init /\ [][NextRetain]_vars

\* The step is a poll of the room whose messages expire
ExpirePollStep == last'.op = "poll" /\ Poll("ABCD", " Bob ", 0)

\* C15: retention is at most MSG_TTL.  No poll returns an entry whose
\* timestamp is more than MSG_TTL before the time of the poll.
C15_Retention ==
    [][ (ExpirePollStep /\ last'.status = 200) =>
          \A k \in 1..Len(last'.msgs) :
              clock - last'.msgs[k].ts * UnitsPerMs <= MSG_TTL * UnitsPerSec ]_vars

---------------------------------------------------------------------------
(* The life of the rooms: every request and the sweep, over ROOM_TIMEOUT *)

LifeInstants == Moments({0, ROOM_TIMEOUT + CLEANUP_INTERVAL}, {0, 1})
LifeCodes == {"abcd", "WXYZ"}

\* Both rooms are created and left by their creator; the other requests go
\* to the first
NextLife ==
    \/ \E t \in LifeInstants : Tick(t)
    \/ \E c \in LifeCodes : Create(c, "Alice", clock)
    \/ Join("abcd", " Bob ")
    \/ SendRead("abcd", "Carol", "*")
    \/ \E r \in sending : SendAppend(r)
    \/ \E n \in {"Alice", "Carol"} : Poll("abcd", n, 0)
    \/ \E n \in {" Bob ", "Carol"} : Leave("abcd", n)
    \/ \E c \in LifeCodes : Leave(c, "Alice")
    \/ SweepRead
    \/ SweepRun

SpecLife == Init /\ [][NextLife]_vars

\* C16: in every reachable state every room of the store has at least one
\* player.
C16_NonEmpty == \A c \in DOMAIN rooms : DOMAIN rooms[c].players # {}

\* The host has left a room that a sweep had gone over, and the room is
\* still there with the one player that remains.
C16_Witness ==
    /\ last.op = "leave" /\ last.status = 200
    /\ last.room \in DOMAIN rooms
    /\ last.name = rooms[last.room].host
    /\ Cardinality(DOMAIN rooms[last.room].players) = 1
    /\ cleaner.wake > StartClock + CLEANUP_INTERVAL * UnitsPerSec

---------------------------------------------------------------------------
(* Sends from and to members and strangers, to rooms that exist or not *)

SendInstants == Moments({0}, {0, UnitsPerMs})
SendCodes == {"ABCD", "WXYZ"}

NextSend ==
    \/ \E t \in SendInstants : Tick(t)
    \/ \E c \in SendCodes : Create(c, "Alice", clock)
    \/ Join("ABCD", " Bob ")
    \/ \E c \in {"abcd", "wxyz"}, f \in {"Alice", " Bob ", "Carol", "  "}, to \in {"*", "__HOST__", "Dave"} :
           SendRead(c, f, to)
    \/ \E r \in sending : SendAppend(r)
    \/ Leave("WXYZ", "Alice")

SpecSend == Init /\ [][NextSend]_vars

\* C17: a send on a room that exists succeeds, for every non-empty from and
\* any to, members or not, and appends exactly one entry at the end of that
\* room's log; the room's players (membership and every last-seen time),
\* host and created, and every other room, are unchanged.  A send to a code
\* without a room (404), or with an empty from (400), changes no room.
C17_SendFrame ==
    [][ /\ nsent' # nsent =>
             /\ rooms' = rooms
             /\ (sending' = sending) => (last'.op = "send" /\ last'.status = 400)
        /\ \A r \in sending : SendAppend(r) =>
             IF r.room \in DOMAIN rooms
             THEN LET old == rooms[r.room]
                      new == rooms'[r.room]
                      n == Len(old.msgs)
                  IN  /\ last'.status = 200
                      /\ DOMAIN rooms' = DOMAIN rooms
                      /\ Len(new.msgs) = n + 1
                      /\ SubSeq(new.msgs, 1, n) = old.msgs
                      /\ new.msgs[n + 1][2] = r.from /\ new.msgs[n + 1][4] = r.msg
                      /\ new.players = old.players
                      /\ new.host = old.host /\ new.created = old.created
                      /\ \A c \in DOMAIN rooms \ {r.room} : rooms'[c] = rooms[c]
             ELSE last'.status = 404 /\ rooms' = rooms ]_vars

\* A send from a name that is no player of the room, to a name that is no
\* player either, has succeeded; it is the second entry of the room's log.
C17_Witness ==
    /\ last.op = "send" /\ last.status = 200
    /\ Cardinality(DOMAIN rooms) = 2
    /\ LET room == rooms[last.room] IN
           /\ Len(room.msgs) = 2
           /\ room.msgs[2][2] = last.name
           /\ room.msgs[2][2] \notin DOMAIN room.players
           /\ room.msgs[2][3] \notin DOMAIN room.players \cup {"*"}

\* C20: in every reachable state the players of a live room are exactly the
\* names whose latest successful create, join, poll or leave on the room,
\* since it was created, is not a leave: a poll puts its name into the
\* players, joined before or not, and neither a send nor the sweep adds or
\* removes a player.
C20_Roster ==
    \A c \in DOMAIN rooms :
        c \in DOMAIN roster /\ DOMAIN rooms[c].players = roster[c]

\* A name that never joined has polled a room that its host has left, that
\* has been written to and that a sweep has gone over: the poller is a
\* player, the host is not.
C20_Witness ==
    /\ last.op = "poll" /\ last.status = 200
    /\ cleaner.wake > StartClock + CLEANUP_INTERVAL * UnitsPerSec
    /\ LET room == rooms[last.room] IN
           /\ last.name = "Carol"
           /\ last.name \in DOMAIN room.players
           /\ room.host \notin DOMAIN room.players
           /\ Len(room.msgs) > 0

=============================================================================
